---------------------------- MODULE Spec2Model ----------------------------
(***************************************************************************)
(* A model of patchfinder/context.py and patchfinder/utils.py.             *)
(*                                                                         *)
(* Python strings are sequences of one-character strings, so that the      *)
(* regular expressions of the source are matched character by character.   *)
(* A fixed URL prefix is kept as a single element of the sequence.         *)
(***************************************************************************)
EXTENDS Integers, Sequences, FiniteSets, TLC

VARIABLES
    pc,             \* position of the driver of the current specification
    arg_vuln_id,    \* create_vuln: the vuln_id argument
    arg_packages,   \* create_vuln: the packages argument
    vuln,           \* create_vuln: the returned object (NoneVal for None)
    arg_kwargs,     \* UnparsableVulnerability.__init__: **kwargs
    obj,            \* UnparsableVulnerability.__init__: the object's __dict__
    ctx,            \* Context: [input_vuln, runnable_vulns]
    raised,         \* the exception the last call raised ("none" if it returned)
    calls,          \* Context / vulnerability methods called so far, in order
    f,              \* parse_file_by_block: the lines of the file
    patterns,       \* parse_file_by_block: start_block, end_block, search_params
    as_per_block,   \* the as_per_block attribute of the vulnerability being parsed
    lineno,         \* parse_file_by_block: number of lines read by the for loop
    block_found,    \* parse_file_by_block: the local block_found
    yielded,        \* parse_file_by_block: the records yielded so far
    f_closed,       \* parse_file_by_block: f.close() has run
    arg_dictionary, \* parse_dict: the dictionary argument
    arg_key_list,   \* parse_dict: the key_list argument
    arg_get_key,    \* parse_dict: the get_key argument
    search_results  \* parse_dict: the returned list (or the exception raised)

vars == <<pc, arg_vuln_id, arg_packages, vuln, arg_kwargs, obj, ctx, raised,
          calls, f, patterns, as_per_block, lineno, block_found, yielded,
          f_closed, arg_dictionary, arg_key_list, arg_get_key, search_results>>

classifyVars == <<arg_vuln_id, arg_packages, vuln>>
configVars   == <<arg_kwargs, obj>>
contextVars  == <<ctx, raised, calls>>
blockVars    == <<f, patterns, as_per_block, lineno, block_found, yielded, f_closed>>
dictVars     == <<arg_dictionary, arg_key_list, arg_get_key, search_results>>

-----------------------------------------------------------------------------
(* Bounds of the model.                                                    *)

MaxDigits == 3      \* longest first digit run of a generated identifier
MaxKwargs == 2      \* most extra keyword arguments of a constructor call
MaxCalls == 3       \* most method calls made on one Context
MaxLines == 5       \* most lines of a parsed file
MaxKeyList == 2     \* longest key_list handed to parse_dict

-----------------------------------------------------------------------------
(* Python values.                                                          *)

NoneVal == [class |-> "NoneType"]

\* A Python list where None may stand instead.
List(items) == [class |-> "list", items |-> items]

\* `not v` for v a list or None.
Falsy(v) == v.class = "NoneType" \/ (v.class = "list" /\ v.items = <<>>)

SeqMax(S) == IF S = {} THEN 0 ELSE CHOOSE n \in S : \A m \in S : m <= n

SeqMin(S) == CHOOSE n \in S : \A m \in S : n <= m

\* All sequences over S of length lo..hi.
SeqsOf(S, lo, hi) == UNION {[1..n -> S] : n \in lo..hi}

\* str.__contains__: needle is a contiguous part of hay.
Contains(hay, needle) ==
    \E i \in 1..(Len(hay) - Len(needle) + 1) :
        SubSeq(hay, i, i + Len(needle) - 1) = needle

-----------------------------------------------------------------------------
(* The re module, for the syntax the source uses: literals, escapes,       *)
(* \d \s . ^ $, one level of groups, and the greedy quantifiers + * ?      *)
(* {n,} {n} {n,m}.                                                         *)

Uppers == <<"A","B","C","D","E","F","G","H","I","J","K","L","M",
            "N","O","P","Q","R","S","T","U","V","W","X","Y","Z">>

Lowers == <<"a","b","c","d","e","f","g","h","i","j","k","l","m",
            "n","o","p","q","r","s","t","u","v","w","x","y","z">>

Lower(c) ==
    IF \E i \in 1..Len(Uppers) : Uppers[i] = c
    THEN Lowers[CHOOSE i \in 1..Len(Uppers) : Uppers[i] = c]
    ELSE c

DigitChars == <<"0","1","2","3","4","5","6","7","8","9">>

IsDigit(c) == \E i \in 1..Len(DigitChars) : DigitChars[i] = c

DigitVal(c) == (CHOOSE i \in 1..Len(DigitChars) : DigitChars[i] = c) - 1

\* The ASCII whitespace that has no escape in a string: vertical tab and the
\* file, group, record and unit separators (0x0b, 0x1c-0x1f), held as the
\* characters themselves.
VT == ""
FS == ""
GS == ""
RS == ""
US == ""

\* str.isspace on one ASCII character: what \s matches and rstrip strips.
IsSpace(c) == c \in {" ", "\t", "\n", "\r", "\f", VT, FS, GS, RS, US}

Unbounded == -1

Atom(kind, c, lo, hi) == [k |-> kind, c |-> c, lo |-> lo, hi |-> hi]

\* Number of consecutive digits of p from position i.
RECURSIVE DigitRun(_, _)
DigitRun(p, i) ==
    IF i <= Len(p) /\ IsDigit(p[i]) THEN 1 + DigitRun(p, i + 1) ELSE 0

RECURSIVE ParseInt(_, _, _)
ParseInt(p, i, n) ==
    IF n = 0 THEN 0
    ELSE 10 * ParseInt(p, i, n - 1) + DigitVal(p[i + n - 1])

\* The quantifier at position i of p: [lo, hi, len], len = 0 when there is none.
Quantifier(p, i) ==
    LET none == [lo |-> 1, hi |-> 1, len |-> 0] IN
    IF i > Len(p) THEN none
    ELSE IF p[i] = "+" THEN [lo |-> 1, hi |-> Unbounded, len |-> 1]
    ELSE IF p[i] = "*" THEN [lo |-> 0, hi |-> Unbounded, len |-> 1]
    ELSE IF p[i] = "?" THEN [lo |-> 0, hi |-> 1, len |-> 1]
    ELSE IF p[i] = "{" THEN
        LET n1 == DigitRun(p, i + 1)
            j  == i + 1 + n1
        IN  IF n1 = 0 \/ j > Len(p) THEN none
            ELSE IF p[j] = "}" THEN
                [lo |-> ParseInt(p, i + 1, n1), hi |-> ParseInt(p, i + 1, n1),
                 len |-> n1 + 2]
            ELSE IF p[j] = "," THEN
                LET n2 == DigitRun(p, j + 1)
                    e  == j + 1 + n2
                IN  IF e > Len(p) \/ p[e] # "}" THEN none
                    ELSE [lo |-> ParseInt(p, i + 1, n1),
                          hi |-> IF n2 = 0 THEN Unbounded
                                 ELSE ParseInt(p, j + 1, n2),
                          len |-> n1 + n2 + 3]
            ELSE none
    ELSE none

\* re.compile: the pattern string p from position i, as a sequence of atoms.
RECURSIVE re_parse(_, _)
re_parse(p, i) ==
    IF i > Len(p) THEN <<>>
    ELSE IF p[i] = "^" THEN <<Atom("bol", "", 1, 1)>> \o re_parse(p, i + 1)
    ELSE IF p[i] = "$" THEN <<Atom("eol", "", 1, 1)>> \o re_parse(p, i + 1)
    ELSE IF p[i] = "(" THEN <<Atom("open", "", 1, 1)>> \o re_parse(p, i + 1)
    ELSE IF p[i] = ")" THEN <<Atom("close", "", 1, 1)>> \o re_parse(p, i + 1)
    ELSE
        LET esc  == p[i] = "\\" /\ i < Len(p)
            kind == IF esc /\ p[i + 1] = "d" THEN "digit"
                    ELSE IF esc /\ p[i + 1] = "s" THEN "space"
                    ELSE IF ~esc /\ p[i] = "." THEN "any"
                    ELSE "lit"
            ch   == IF esc THEN p[i + 1] ELSE p[i]
            nxt  == IF esc THEN i + 2 ELSE i + 1
            q    == Quantifier(p, nxt)
        IN  <<Atom(kind, ch, q.lo, q.hi)>> \o re_parse(p, nxt + q.len)

re_compile(p) == re_parse(p, 1)

\* One character c against a character atom a; ic is re.IGNORECASE.
CharMatches(a, c, ic) ==
    CASE a.k = "lit"   -> IF ic THEN Lower(c) = Lower(a.c) ELSE c = a.c
      [] a.k = "digit" -> IsDigit(c)
      [] a.k = "space" -> IsSpace(c)
      [] a.k = "any"   -> c # "\n"
      [] OTHER         -> FALSE

\* The most repetitions of atom a that s allows from position i, counted
\* from n already taken.
RECURSIVE RunLen(_, _, _, _, _)
RunLen(a, s, i, ic, n) ==
    IF /\ i + n <= Len(s)
       /\ (a.hi = Unbounded \/ n < a.hi)
       /\ CharMatches(a, s[i + n], ic)
    THEN RunLen(a, s, i, ic, n + 1)
    ELSE n

NoMatch == [ok |-> FALSE, end |-> 0, groups |-> <<>>]

\* The backtracking matcher: atoms k.. of pat against s from position i.
\* st carries the position of the last "(" and the groups closed so far.
\* re_rep tries n repetitions of the quantified atom k, then n - 1, ...: the
\* greedy quantifiers take the longest repetition the rest can follow.
RECURSIVE re_try(_, _, _, _, _, _)
RECURSIVE re_rep(_, _, _, _, _, _, _)
re_try(pat, k, s, i, ic, st) ==
    IF k > Len(pat) THEN [ok |-> TRUE, end |-> i, groups |-> st.groups]
    ELSE IF pat[k].k = "bol" THEN
        IF i = 1 THEN re_try(pat, k + 1, s, i, ic, st) ELSE NoMatch
    ELSE IF pat[k].k = "eol" THEN
        IF i = Len(s) + 1 \/ (i = Len(s) /\ s[i] = "\n")
        THEN re_try(pat, k + 1, s, i, ic, st) ELSE NoMatch
    ELSE IF pat[k].k = "open" THEN
        re_try(pat, k + 1, s, i, ic, [st EXCEPT !.open = i])
    ELSE IF pat[k].k = "close" THEN
        re_try(pat, k + 1, s, i, ic,
               [st EXCEPT !.groups = Append(@, SubSeq(s, st.open, i - 1))])
    ELSE IF pat[k].lo = 1 /\ pat[k].hi = 1 THEN
        IF i <= Len(s) /\ CharMatches(pat[k], s[i], ic)
        THEN re_try(pat, k + 1, s, i + 1, ic, st) ELSE NoMatch
    ELSE re_rep(pat, k, s, i, ic, st, RunLen(pat[k], s, i, ic, 0))

re_rep(pat, k, s, i, ic, st, n) ==
    IF n < pat[k].lo THEN NoMatch
    ELSE IF re_try(pat, k + 1, s, i + n, ic, st).ok
         THEN re_try(pat, k + 1, s, i + n, ic, st)
         ELSE re_rep(pat, k, s, i, ic, st, n - 1)

\* re.match / pattern.match: the pattern anchored at the start of s.
re_match(pat, s, ic) ==
    re_try(pat, 1, s, 1, ic, [open |-> 1, groups |-> <<>>])

\* The leftmost match of pat in s that starts at position i or later.
RECURSIVE re_search_from(_, _, _, _)
re_search_from(pat, s, i, ic) ==
    IF i > Len(s) + 1 THEN NoMatch
    ELSE IF re_try(pat, 1, s, i, ic, [open |-> 1, groups |-> <<>>]).ok
         THEN re_try(pat, 1, s, i, ic, [open |-> 1, groups |-> <<>>])
         ELSE re_search_from(pat, s, i + 1, ic)

\* re.search / pattern.search
re_search(pat, s, ic) == re_search_from(pat, s, 1, ic)

-----------------------------------------------------------------------------
(* context.py: the vulnerability classes.                                  *)

NVD_URL == "https://nvd.nist.gov/vuln/detail/"
MITRE_URL == "https://cve.mitre.org/cgi-bin/cvename.cgi?name="
DEBIAN_TRACKER_URL == "https://security-tracker.debian.org/tracker/"
DSA_LIST_URL ==
    "https://salsa.debian.org/security-tracker-team/security-tracker/raw/master/data/DSA/list"
RHSA_API_URL == "https://access.redhat.com/labs/securitydataapi/cve.json?advisory="

\* Vulnerability.__init__
Vulnerability(self, vuln_id, entrypoint_urls, packages) ==
    [a \in DOMAIN self \cup {"vuln_id", "entrypoint_urls", "packages"} |->
        CASE a = "vuln_id"         -> vuln_id
          [] a = "entrypoint_urls" -> entrypoint_urls
          [] a = "packages"        -> packages
          [] OTHER                 -> self[a]]

allowed_keys == {"start_block", "end_block", "search_params",
                 "as_per_block", "xpaths", "key_list"}

\* The generator of line 70: the (k, v) of kwargs that __dict__.update receives.
FilterKwargsAll(kwargs) == DOMAIN kwargs

FilterKwargs(kwargs) == {k \in DOMAIN kwargs : k \in allowed_keys}

\* UnparsableVulnerability.__init__; cls is the name of the class constructed.
UnparsableVulnerability(cls, vuln_id, packages, base_url, parse_mode, entrypoint_urls, kwargs) ==
    LET own  == [a \in {"class", "base_url", "equivalent_vulns", "parse_mode",
                        "allowed_keys"} |->
                   CASE a = "class"            -> cls
                     [] a = "base_url"         -> base_url
                     [] a = "equivalent_vulns" -> <<>>
                     [] a = "parse_mode"       -> parse_mode
                     [] OTHER                  -> allowed_keys]
        urls == IF Falsy(entrypoint_urls) THEN <<>> ELSE entrypoint_urls.items
        kept == FilterKwargs(kwargs)
        self == [a \in DOMAIN own \cup kept |->
                   IF a \in kept THEN kwargs[a] ELSE own[a]]
    IN  Vulnerability(self, vuln_id, urls, packages)

\* CVE.__init__, with two of the three entrypoints.
CVE_TwoUrls(vuln_id, packages) ==
    Vulnerability([class |-> "CVE"], vuln_id,
                  << <<NVD_URL>> \o vuln_id, <<MITRE_URL>> \o vuln_id >>,
                  packages)

\* CVE.__init__
CVE(vuln_id, packages) ==
    Vulnerability([class |-> "CVE"], vuln_id,
                  << <<NVD_URL>> \o vuln_id,
                     <<MITRE_URL>> \o vuln_id,
                     <<DEBIAN_TRACKER_URL>> \o vuln_id >>,
                  packages)

DSA_START_PREFIX == <<"^", "\\", "[", ".", "+", "\\", "]", " ">>
DSA_END_BLOCK == <<"^", "\\", "s", "+", "\\", "[">>
DSA_SEARCH_PARAMS == <<"^", "\\", "s", "+", "\\", "{", "(", ".", "+", ")", "\\", "}">>

\* DSA.__init__
DSA(vuln_id, packages) ==
    UnparsableVulnerability("DSA", vuln_id, packages, <<DSA_LIST_URL>>, "plain",
        NoneVal,
        [start_block   |-> re_compile(DSA_START_PREFIX \o vuln_id),
         end_block     |-> re_compile(DSA_END_BLOCK),
         search_params |-> re_compile(DSA_SEARCH_PARAMS),
         as_per_block  |-> TRUE])

\* RHSA.__init__
RHSA(vuln_id, packages) ==
    UnparsableVulnerability("RHSA", vuln_id, packages,
        <<RHSA_API_URL>> \o vuln_id, "json", NoneVal,
        [key_list |-> << <<"C", "V", "E">> >>])

CVE_RE == re_compile(<<"^", "C", "V", "E", "\\", "-", "\\", "d", "+",
                       "\\", "-", "\\", "d", "+", "$">>)
DSA_RE == re_compile(<<"^", "D", "S", "A", "\\", "-", "\\", "d", "{", "3", ",", "}",
                       "\\", "-", "\\", "d", "+", "$">>)
RHSA_RE == re_compile(<<"^", "R", "H", "S", "A", ":", "\\", "d", "+",
                        "\\", "-", "\\", "d", "+", "$">>)

\* create_vuln
create_vuln(vuln_id, packages) ==
    IF re_match(CVE_RE, vuln_id, TRUE).ok THEN CVE(vuln_id, packages)
    ELSE IF re_match(DSA_RE, vuln_id, TRUE).ok THEN DSA(vuln_id, packages)
    ELSE IF re_match(RHSA_RE, vuln_id, TRUE).ok THEN RHSA(vuln_id, packages)
    ELSE NoneVal

-----------------------------------------------------------------------------
(* The state before any call.                                              *)

Idle ==
    /\ arg_vuln_id = <<>>
    /\ arg_packages = NoneVal
    /\ vuln = NoneVal
    /\ arg_kwargs = <<>>
    /\ obj = NoneVal
    /\ ctx = NoneVal
    /\ raised = "none"
    /\ calls = <<>>
    /\ f = <<>>
    /\ patterns = NoneVal
    /\ as_per_block = FALSE
    /\ lineno = 0
    /\ block_found = FALSE
    /\ yielded = <<>>
    /\ f_closed = FALSE
    /\ arg_dictionary = NoneVal
    /\ arg_key_list = <<>>
    /\ arg_get_key = FALSE
    /\ search_results = <<>>

-----------------------------------------------------------------------------
(* SpecClassify: create_vuln on generated identifiers.                     *)

IdPrefixes ==
    { <<"C","V","E","-">>, <<"c","v","e","-">>, <<"C","v","E","-">>,
      <<"C","V","E",":">>, <<"X","C","V","E","-">>,
      <<"D","S","A","-">>, <<"d","s","A","-">>, <<"D","S","A",":">>,
      <<"R","H","S","A",":">>, <<"r","h","s","a",":">>, <<"R","H","S","A","-">>,
      <<>> }

IdSeparators == { <<"-">>, <<":">>, <<>> }

IdSuffixes == { <<>>, <<"\n">>, <<"x">>, <<"\n", "\n">> }

Identifiers ==
    {p \o d1 \o s \o d2 \o x :
        p \in IdPrefixes, d1 \in SeqsOf({"0", "7"}, 0, MaxDigits),
        s \in IdSeparators, d2 \in SeqsOf({"1", "a"}, 0, 1), x \in IdSuffixes}

PackagesA == [class |-> "dict", items |-> << <<"debian", "openssl">> >>]

InitClassify ==
    /\ Idle
    /\ pc = "start"

CallCreateVuln ==
    /\ pc = "start"
    /\ \E id \in Identifiers, p \in {NoneVal, PackagesA} :
        /\ arg_vuln_id' = id
        /\ arg_packages' = p
        /\ vuln' = create_vuln(id, p)
    /\ pc' = "returned"
    /\ UNCHANGED <<configVars, contextVars, blockVars, dictVars>>

NextClassify == CallCreateVuln

SpecClassify == InitClassify /\ [][NextClassify]_vars


\* An identifier of the shape <letters><sep><digits>-<digits>, the letters in
\* any case and at least minDigits digits in the first run, followed by a
\* newline when nl is 1.
ShapeWith(id, letters, sep, minDigits, nls) ==
    \E n1 \in minDigits..Len(id), n2 \in 1..Len(id), nl \in nls :
        LET L == Len(letters) IN
        /\ Len(id) = L + 1 + n1 + 1 + n2 + nl
        /\ \A i \in 1..L : Lower(id[i]) = Lower(letters[i])
        /\ id[L + 1] = sep
        /\ \A i \in (L + 2)..(L + 1 + n1) : IsDigit(id[i])
        /\ id[L + 2 + n1] = "-"
        /\ \A i \in (L + 3 + n1)..(L + 2 + n1 + n2) : IsDigit(id[i])
        /\ nl = 1 => id[Len(id)] = "\n"

\* The shape as Python's "$" reads it: one newline may follow the last digit.
HasShape(id, letters, sep, minDigits) ==
    ShapeWith(id, letters, sep, minDigits, {0, 1})

\* The shape itself: the identifier ends with the last digit.
HasExactShape(id, letters, sep, minDigits) ==
    ShapeWith(id, letters, sep, minDigits, {0})

IsExactCveId(id) == HasExactShape(id, <<"C", "V", "E">>, "-", 1)
IsExactDsaId(id) == HasExactShape(id, <<"D", "S", "A">>, "-", 3)
IsExactRhsaId(id) == HasExactShape(id, <<"R", "H", "S", "A">>, ":", 1)

IsCveId(id) == HasShape(id, <<"C", "V", "E">>, "-", 1)
IsDsaId(id) == HasShape(id, <<"D", "S", "A">>, "-", 3)
IsRhsaId(id) == HasShape(id, <<"R", "H", "S", "A">>, ":", 1)

\* C1: an identifier of one of the three shapes gives the matching variant:
\* a CVE with exactly the NVD, MITRE and Debian tracker entrypoints, each
\* containing the identifier as given; a DSA with parse_mode "plain" and the
\* fixed tracker-list base_url; an RHSA with parse_mode "json", key_list
\* ["CVE"] and a base_url containing the identifier.
C1_ClassifyKnown ==
    pc = "returned" =>
        /\ IsCveId(arg_vuln_id) =>
            /\ vuln.class = "CVE"
            /\ vuln.vuln_id = arg_vuln_id
            /\ vuln.packages = arg_packages
            /\ Len(vuln.entrypoint_urls) = 3
            /\ vuln.entrypoint_urls[1][1] = NVD_URL
            /\ vuln.entrypoint_urls[2][1] = MITRE_URL
            /\ vuln.entrypoint_urls[3][1] = DEBIAN_TRACKER_URL
            /\ \A i \in 1..3 : Contains(Tail(vuln.entrypoint_urls[i]), arg_vuln_id)
        /\ IsDsaId(arg_vuln_id) =>
            /\ vuln.class = "DSA"
            /\ vuln.vuln_id = arg_vuln_id
            /\ vuln.parse_mode = "plain"
            /\ vuln.base_url = <<DSA_LIST_URL>>
        /\ IsRhsaId(arg_vuln_id) =>
            /\ vuln.class = "RHSA"
            /\ vuln.vuln_id = arg_vuln_id
            /\ vuln.parse_mode = "json"
            /\ vuln.key_list = << <<"C", "V", "E">> >>
            /\ vuln.base_url[1] = RHSA_API_URL
            /\ Contains(Tail(vuln.base_url), arg_vuln_id)

C1_Witness ==
    /\ pc = "returned"
    /\ arg_vuln_id = <<"C", "v", "E", "-", "0", "7", "-", "1">>
    /\ vuln.class = "CVE"
    /\ Len(vuln.entrypoint_urls) = 3

\* C2: an identifier that is of none of the three forms CVE-<digits>-<digits>,
\* DSA-<3+ digits>-<digits>, RHSA:<digits>-<digits> makes create_vuln return
\* None: no vulnerability object is constructed.
C2_ClassifyUnknown ==
    (/\ pc = "returned"
     /\ ~IsExactCveId(arg_vuln_id)
     /\ ~IsExactDsaId(arg_vuln_id)
     /\ ~IsExactRhsaId(arg_vuln_id)) => vuln = NoneVal

-----------------------------------------------------------------------------
(* SpecConfig: UnparsableVulnerability.__init__ with extra keyword         *)
(* arguments.                                                              *)

KwargKeys == allowed_keys \cup {"foo", "depth", "equivalent_vulns"}

KwargValues == { <<"v1">>, <<"v2">> }

KwargSets == {K \in SUBSET KwargKeys : Cardinality(K) <= MaxKwargs}

ConfigVulnId == <<"X", "-", "1">>

ConfigBaseUrl == <<"https://example.org/list">>

InitConfig ==
    /\ Idle
    /\ pc = "start"

CallUnparsableVulnerability ==
    /\ pc = "start"
    /\ \E K \in KwargSets, p \in {NoneVal, PackagesA},
          urls \in {NoneVal, List(<<>>), List(<<ConfigBaseUrl>>)} :
        \E kw \in [K -> KwargValues] :
            /\ arg_kwargs' = kw
            /\ arg_packages' = p
            /\ obj' = UnparsableVulnerability("UnparsableVulnerability",
                          ConfigVulnId, p, ConfigBaseUrl, "plain", urls, kw)
    /\ pc' = "returned"
    /\ UNCHANGED <<arg_vuln_id, vuln, contextVars, blockVars, dictVars>>

NextConfig == CallUnparsableVulnerability

SpecConfig == InitConfig /\ [][NextConfig]_vars

OwnAttributes == {"class", "vuln_id", "entrypoint_urls", "packages", "base_url",
                  "equivalent_vulns", "parse_mode", "allowed_keys"}

\* C7: after construction with extra keys, every recognized key holds the
\* value given, no attribute outside the recognized set was added, and
\* vuln_id, base_url, parse_mode, packages and equivalent_vulns are as the
\* constructor set them.
C7_KwargsFiltered ==
    pc = "returned" =>
        /\ DOMAIN obj = OwnAttributes \cup (DOMAIN arg_kwargs \cap allowed_keys)
        /\ \A k \in DOMAIN arg_kwargs \cap allowed_keys : obj[k] = arg_kwargs[k]
        /\ obj.vuln_id = ConfigVulnId
        /\ obj.base_url = ConfigBaseUrl
        /\ obj.parse_mode = "plain"
        /\ obj.packages = arg_packages
        /\ obj.equivalent_vulns = <<>>

C7_Witness ==
    /\ pc = "returned"
    /\ DOMAIN arg_kwargs = {"key_list", "foo"}
    /\ "key_list" \in DOMAIN obj
    /\ "foo" \notin DOMAIN obj

-----------------------------------------------------------------------------
(* SpecContext: a Context and the methods a caller may invoke on it and on *)
(* its input vulnerability.  Every one of them is `pass`.                  *)

ContextIds ==
    { <<"C", "V", "E", "-", "2", "0", "2", "0", "-", "1">>,
      <<"D", "S", "A", "-", "1", "2", "3", "-", "1">>,
      <<"R", "H", "S", "A", ":", "2", "0", "-", "1">>,
      <<"X", "S", "A", "-", "1">> }

\* Context.__init__
Context(v) == [input_vuln |-> v, runnable_vulns |-> <<>>]

IsUnparsable(v) == v.class \in {"DSA", "RHSA", "UnparsableVulnerability"}

InitContext ==
    /\ Idle
    /\ pc = "start"

NewContext ==
    /\ pc = "start"
    /\ \E id \in ContextIds, p \in {NoneVal, PackagesA} :
        /\ arg_vuln_id' = id
        /\ arg_packages' = p
        /\ vuln' = create_vuln(id, p)
        /\ ctx' = Context(create_vuln(id, p))
    /\ pc' = "created"
    /\ UNCHANGED <<raised, calls, configVars, blockVars, dictVars>>

\* A method whose body is `pass`: it returns None and changes no attribute.
PassMethod(name) ==
    /\ pc = "created"
    /\ Len(calls) < MaxCalls
    /\ calls' = Append(calls, name)
    /\ raised' = "none"
    /\ UNCHANGED <<pc, ctx, classifyVars, configVars, blockVars, dictVars>>

\* Context.translate_vuln
translate_vuln == PassMethod("translate_vuln")

\* Context.run_crawlers
run_crawlers == PassMethod("run_crawlers")

\* UnparsableVulnerability.translate
translate == IsUnparsable(vuln) /\ PassMethod("translate")

\* UnparsableVulnerability.clean_data
clean_data == IsUnparsable(vuln) /\ PassMethod("clean_data")

NextContext ==
    \/ NewContext
    \/ translate_vuln
    \/ run_crawlers
    \/ translate
    \/ clean_data

SpecContext == InitContext /\ [][NextContext]_vars

\* C8: a context whose input is indirect is not dispatched (run_crawlers)
\* before a translate_vuln that populated runnable_vulns, and nothing is
\* called on a context after its dispatch.
C8_TranslateBeforeDispatch ==
    \A i \in 1..Len(calls) :
        calls[i] = "run_crawlers" =>
            /\ i = Len(calls)
            /\ IsUnparsable(ctx.input_vuln) =>
                /\ \E j \in 1..(i - 1) : calls[j] = "translate_vuln"
                /\ ctx.runnable_vulns # <<>>

\* C9: translating an indirect vulnerability that yields zero records raises
\* TranslationError, and run_crawlers does not follow.
C9_ZeroRecordsIsError ==
    \A i \in 1..Len(calls) :
        (/\ calls[i] \in {"translate", "translate_vuln"}
         /\ IsUnparsable(ctx.input_vuln)
         /\ ctx.input_vuln.equivalent_vulns = <<>>
         /\ ctx.runnable_vulns = <<>>) =>
            /\ i = Len(calls) => raised = "TranslationError"
            /\ \A j \in (i + 1)..Len(calls) : calls[j] # "run_crawlers"

-----------------------------------------------------------------------------
(* SpecBlock: utils.parse_file_by_block, one iteration of its for loop per *)
(* step.                                                                   *)

\* str.rstrip
rstrip(line) ==
    SubSeq(line, 1, SeqMax({n \in 1..Len(line) : ~IsSpace(line[n])}))

BlockVulnId == <<"D", "S", "A", "-", "1", "2", "3", "-", "1">>

\* The extraction configuration DSA.__init__ gives the vulnerability.
DsaPatterns ==
    LET dsa == DSA(BlockVulnId, NoneVal) IN
    [start_block   |-> dsa.start_block,
     end_block     |-> dsa.end_block,
     search_params |-> dsa.search_params]

\* The same blocks, searched for the bracketed field of a line.
BracketPatterns ==
    [DsaPatterns EXCEPT
        !.search_params = re_compile(<<"\\", "[", "(", ".", "+", ")", "\\", "]">>)]

LineHeader == <<"[", "x", "]", " ">> \o BlockVulnId \o <<"\n">>
LineRecordA == <<"\t", "{", "a", "}", "\n">>
LineRecordB == <<" ", "{", "b", "}", FS, "\n">>
LineEnd == <<VT, "[", "s", "]", "\n">>

LineVocabulary == {LineHeader, LineRecordA, LineRecordB, LineEnd}

Files == SeqsOf(LineVocabulary, 0, MaxLines)

InitBlock ==
    /\ pc = "running"
    /\ arg_vuln_id = <<>>
    /\ arg_packages = NoneVal
    /\ vuln = NoneVal
    /\ arg_kwargs = <<>>
    /\ obj = NoneVal
    /\ ctx = NoneVal
    /\ raised = "none"
    /\ calls = <<>>
    /\ f \in Files
    /\ patterns \in {DsaPatterns, BracketPatterns}
    /\ as_per_block \in BOOLEAN
    /\ lineno = 0
    /\ block_found = FALSE
    /\ yielded = <<>>
    /\ f_closed = FALSE
    /\ arg_dictionary = NoneVal
    /\ arg_key_list = <<>>
    /\ arg_get_key = FALSE
    /\ search_results = <<>>

\* The line the for loop is about to read, after line.rstrip().
NextLine == rstrip(f[lineno + 1])

\* One record of the generator: the groups, and the line that gave them.
Record(groups) == [lineno |-> lineno + 1, groups |-> groups]

\* Lines 61-62: outside a block, only start_block is tested.
ScanOutside ==
    /\ pc = "running"
    /\ lineno < Len(f)
    /\ ~block_found
    /\ block_found' = re_match(patterns.start_block, NextLine, FALSE).ok
    /\ lineno' = lineno + 1
    /\ UNCHANGED <<pc, yielded, f_closed>>

\* Lines 55-60 with end_block closing the block and the scan going on.
ScanInsideRearm ==
    /\ pc = "running"
    /\ lineno < Len(f)
    /\ block_found
    /\ lineno' = lineno + 1
    /\ IF re_match(patterns.end_block, NextLine, FALSE).ok
       THEN /\ block_found' = FALSE
            /\ UNCHANGED <<pc, f_closed, yielded>>
       ELSE /\ yielded' =
                LET m == re_search(patterns.search_params, NextLine, FALSE) IN
                IF m.ok THEN Append(yielded, Record(m.groups)) ELSE yielded
            /\ UNCHANGED <<pc, f_closed, block_found>>

\* Lines 55-60 with search_params tested before end_block.
ScanInsideSearchFirst ==
    /\ pc = "running"
    /\ lineno < Len(f)
    /\ block_found
    /\ lineno' = lineno + 1
    /\ yielded' =
        LET m == re_search(patterns.search_params, NextLine, FALSE) IN
        IF m.ok THEN Append(yielded, Record(m.groups)) ELSE yielded
    /\ IF re_match(patterns.end_block, NextLine, FALSE).ok
       THEN /\ pc' = "done"
            /\ f_closed' = TRUE
            /\ UNCHANGED block_found
       ELSE UNCHANGED <<pc, f_closed, block_found>>

\* Lines 55-60: inside a block, end_block breaks out of the loop (and the
\* finally clause closes the file); any other line is searched and its
\* groups yielded.
ScanInside ==
    /\ pc = "running"
    /\ lineno < Len(f)
    /\ block_found
    /\ lineno' = lineno + 1
    /\ IF re_match(patterns.end_block, NextLine, FALSE).ok
       THEN /\ pc' = "done"
            /\ f_closed' = TRUE
            /\ UNCHANGED <<block_found, yielded>>
       ELSE /\ yielded' =
                LET m == re_search(patterns.search_params, NextLine, FALSE) IN
                IF m.ok THEN Append(yielded, Record(m.groups)) ELSE yielded
            /\ UNCHANGED <<pc, f_closed, block_found>>

\* Lines 53, 63-64: the file is exhausted; the finally clause closes it.
EndOfFile ==
    /\ pc = "running"
    /\ lineno = Len(f)
    /\ pc' = "done"
    /\ f_closed' = TRUE
    /\ UNCHANGED <<lineno, block_found, yielded>>

NextBlock ==
    \/ (ScanOutside /\ UNCHANGED <<f, patterns, as_per_block,
                                   classifyVars, configVars, contextVars, dictVars>>)
    \/ (ScanInside /\ UNCHANGED <<f, patterns, as_per_block,
                                  classifyVars, configVars, contextVars, dictVars>>)
    \/ (EndOfFile /\ UNCHANGED <<f, patterns, as_per_block,
                                 classifyVars, configVars, contextVars, dictVars>>)

SpecBlock == InitBlock /\ [][NextBlock]_vars

(* The blocks of a file, read off the file as a whole.                     *)

IsStart(i) == re_match(patterns.start_block, rstrip(f[i]), FALSE).ok
IsEnd(i) == re_match(patterns.end_block, rstrip(f[i]), FALSE).ok
Searched(i) == re_search(patterns.search_params, rstrip(f[i]), FALSE)

\* The first line from i on that opens a block (Len(f) + 1 if none).
StartFrom(i) == SeqMin({j \in i..Len(f) : IsStart(j)} \cup {Len(f) + 1})

\* The first line after s that closes the block opened at s.
EndAfter(s) == SeqMin({j \in (s + 1)..Len(f) : IsEnd(j)} \cup {Len(f) + 1})

\* The groups of the lines lo..hi that search_params finds, in line order.
RECURSIVE GroupsOf(_, _)
GroupsOf(lo, hi) ==
    IF lo > hi THEN <<>>
    ELSE (IF Searched(lo).ok THEN <<Searched(lo).groups>> ELSE <<>>)
         \o GroupsOf(lo + 1, hi)

\* The records of the first block only.
FirstBlockGroups ==
    LET s == StartFrom(1) IN GroupsOf(s + 1, EndAfter(s) - 1)

\* The records of every block, the scanner re-arming after each end_block.
RECURSIVE EveryBlockGroupsFrom(_)
EveryBlockGroupsFrom(i) ==
    LET s == StartFrom(i)
        e == EndAfter(s)
    IN  IF s > Len(f) THEN <<>>
        ELSE GroupsOf(s + 1, e - 1) \o EveryBlockGroupsFrom(e + 1)

YieldedGroups == [k \in 1..Len(yielded) |-> yielded[k].groups]

\* A file with two closed or open blocks that both hold a record.
TwoBlocksWithRecords ==
    LET s1 == StartFrom(1)
        e1 == EndAfter(s1)
        s2 == StartFrom(e1 + 1)
    IN  /\ s2 <= Len(f)
        /\ GroupsOf(s1 + 1, e1 - 1) # <<>>
        /\ GroupsOf(s2 + 1, EndAfter(s2) - 1) # <<>>

\* C3: with as_per_block false, the records yielded are those of the first
\* block and the scan reads no line past the first end_block.
C3_FirstBlockOnly ==
    (pc = "done" /\ ~as_per_block) =>
        /\ YieldedGroups = FirstBlockGroups
        /\ lineno = IF EndAfter(StartFrom(1)) > Len(f) THEN Len(f)
                    ELSE EndAfter(StartFrom(1))
        /\ f_closed

C3_Witness ==
    /\ pc = "done"
    /\ ~as_per_block
    /\ TwoBlocksWithRecords
    /\ YieldedGroups = FirstBlockGroups
    /\ lineno < Len(f)

\* C4: with as_per_block true, the scanner re-arms after each end_block and
\* the records of every block are yielded, in document order.
C4_EveryBlock ==
    (pc = "done" /\ as_per_block) => YieldedGroups = EveryBlockGroupsFrom(1)

\* C10: every record is the group list of a line after the first start_block
\* line with no end_block line between them or at it; yielding lines come in
\* line order, and every such line read so far that search_params finds has
\* yielded exactly one record.
C10_LineDiscipline ==
    LET s == StartFrom(1) IN
    /\ \A k \in 1..Len(yielded) :
        LET n == yielded[k].lineno IN
        /\ s < n /\ n <= lineno
        /\ \A j \in (s + 1)..n : ~IsEnd(j)
        /\ Searched(n).ok
        /\ yielded[k].groups = Searched(n).groups
        /\ \A k2 \in (k + 1)..Len(yielded) : n < yielded[k2].lineno
    /\ \A j \in (s + 1)..lineno :
        ((\A i \in (s + 1)..j : ~IsEnd(i)) /\ Searched(j).ok) =>
            \E k \in 1..Len(yielded) : yielded[k].lineno = j

C10_Witness ==
    /\ pc = "done"
    /\ patterns = BracketPatterns
    /\ Len(yielded) = 1
    /\ \E j \in 1..lineno : IsEnd(j) /\ Searched(j).ok /\ j > StartFrom(1)

-----------------------------------------------------------------------------
(* SpecDict: utils.parse_dict.  A dict is its (key, value) pairs in        *)
(* insertion order, the order in which dictionary.keys() gives the keys.   *)

Str(value) == [class |-> "str", value |-> value]

Dict(items) == [class |-> "dict", items |-> items]

\* A call that raised instead of returning.
Raise(exception) == [class |-> exception]

RECURSIVE parse_dict(_, _, _)
RECURSIVE parse_dict_loop(_, _, _, _, _)

\* The for loop of lines 84-95, from the idx-th key on; acc is search_results.
parse_dict_loop(dictionary, key_list, get_key, idx, acc) ==
    IF idx > Len(dictionary.items) THEN List(acc)
    ELSE
        LET key   == dictionary.items[idx][1]
            value == dictionary.items[idx][2]
        IN  IF ~re_match(re_compile(key_list[1]), key, FALSE).ok
            THEN parse_dict_loop(dictionary, key_list, get_key, idx + 1, acc)
            ELSE IF Len(key_list) = 1
            THEN parse_dict_loop(dictionary, key_list, get_key, idx + 1,
                     Append(acc, IF get_key THEN Str(key) ELSE value))
            ELSE IF parse_dict(value, Tail(key_list), get_key).class # "list"
            THEN parse_dict(value, Tail(key_list), get_key)
            ELSE parse_dict_loop(dictionary, key_list, get_key, idx + 1,
                     acc \o parse_dict(value, Tail(key_list), get_key).items)

\* parse_dict without the early return of lines 81-82.
parse_dict_no_early_return(dictionary, key_list, get_key) ==
    IF dictionary.class # "dict" THEN Raise("AttributeError")
    ELSE IF dictionary.items = <<>> THEN List(<<>>)
    ELSE IF Len(key_list) = 0 THEN Raise("IndexError")
    ELSE parse_dict_loop(dictionary, key_list, get_key, 1, <<>>)

\* parse_dict: lines 81-83, then the loop; dictionary.keys() of a value that
\* is no dict raises AttributeError.
parse_dict(dictionary, key_list, get_key) ==
    IF Len(key_list) = 0 THEN List(<<>>)
    ELSE IF dictionary.class # "dict" THEN Raise("AttributeError")
    ELSE parse_dict_loop(dictionary, key_list, get_key, 1, <<>>)

DictKeys == { <<"C", "V", "E">>, <<"C", "V", "E", "x">>, <<"x", "C", "V", "E">> }

Leaves == { Str(<<"C", "V", "E", "-", "2", "0", "2", "0", "-", "1">>),
            Str(<<"n", "/", "a">>) }

\* The dicts of at most two keys with values in V.
DictsOver(V) ==
    {Dict(<<>>)}
    \cup {Dict(<< <<k, v>> >>) : k \in DictKeys, v \in V}
    \cup {Dict(<< <<kk[1], v1>>, <<kk[2], v2>> >>) :
            kk \in {p \in DictKeys \X DictKeys : p[1] # p[2]}, v1 \in V, v2 \in V}

InnerDicts == DictsOver(Leaves)

Dictionaries == DictsOver(Leaves \cup {d \in InnerDicts : Len(d.items) <= 1})
                \cup {Dict(<< <<k, v>> >>) : k \in DictKeys, v \in InnerDicts}

KeyPatterns == { <<"^", "C", "V", "E", "$">>, <<"C", "V", "E">>, <<".", "+">> }

KeyLists == SeqsOf(KeyPatterns, 0, MaxKeyList)

InitDict ==
    /\ Idle
    /\ pc = "start"

CallParseDict ==
    /\ pc = "start"
    /\ \E d \in Dictionaries \cup Leaves, kl \in KeyLists, gk \in BOOLEAN :
        /\ arg_dictionary' = d
        /\ arg_key_list' = kl
        /\ arg_get_key' = gk
        /\ search_results' = parse_dict(d, kl, gk)
    /\ pc' = "returned"
    /\ UNCHANGED <<classifyVars, configVars, contextVars, blockVars>>

NextDict == CallParseDict

SpecDict == InitDict /\ [][NextDict]_vars

\* A key matches a pattern when the pattern matches at the beginning of it.
KeyMatches(pattern, key) == re_match(re_compile(pattern), key, FALSE).ok

\* One entry for each path of keys k1..kn of d with every ki matching
\* key_list[i]: the last key, or the value under it.  A value that is no
\* mapping has no keys, so no path goes through it.
RECURSIVE PathEntries(_, _, _)
PathEntries(d, key_list, get_key) ==
    IF d.class # "dict" \/ key_list = <<>> THEN {}
    ELSE UNION {
        IF ~KeyMatches(key_list[1], d.items[i][1]) THEN {}
        ELSE IF Len(key_list) = 1
             THEN {[path  |-> <<i>>,
                    entry |-> IF get_key THEN Str(d.items[i][1])
                              ELSE d.items[i][2]]}
             ELSE {[path  |-> <<i>> \o e.path, entry |-> e.entry] :
                     e \in PathEntries(d.items[i][2], Tail(key_list), get_key)}
        : i \in 1..Len(d.items)}

\* The list holds exactly the entries of E, one for each, in any order.
HoldsExactly(list, E) ==
    \E g \in [1..Len(list) -> E] :
        /\ \A e \in E : \E i \in 1..Len(list) : g[i] = e
        /\ \A i, j \in 1..Len(list) : g[i] = g[j] => i = j
        /\ \A i \in 1..Len(list) : list[i] = g[i].entry

\* C5: for a mapping and a non-empty key_list, parse_dict returns exactly one
\* entry for each path of matching keys.
C5_OneEntryPerPath ==
    (/\ pc = "returned"
     /\ arg_dictionary.class = "dict"
     /\ arg_key_list # <<>>) =>
        /\ search_results.class = "list"
        /\ HoldsExactly(search_results.items,
                        PathEntries(arg_dictionary, arg_key_list, arg_get_key))

\* C6: with an empty key_list parse_dict returns an empty list, whatever the
\* dictionary argument is.
C6_EmptyKeyList ==
    (pc = "returned" /\ arg_key_list = <<>>) => search_results = List(<<>>)

C6_Witness ==
    /\ pc = "returned"
    /\ arg_key_list = <<>>
    /\ arg_dictionary.class = "dict"
    /\ Len(arg_dictionary.items) = 2
    /\ search_results = List(<<>>)

=============================================================================
